---- MODULE Spec2Model ----
(***************************************************************************)
(* vagabond: a migration sequencer for Cassandra (src/src/main.rs).        *)
(*                                                                         *)
(* The state is what survives one invocation of the command line tool:     *)
(* the ./migrations directory (the manifest file "vagabond", one           *)
(* directory per migration with up.cql and down.cql), the tracking table   *)
(* "vagabond" of the database, and the effects of the script statements    *)
(* executed so far.  Every subcommand is one action: an invocation runs    *)
(* to its end (success, ioexpect's exit, or a panic) before the next one   *)
(* starts.  What an invocation prints is its result, not state: a         *)
(* subcommand is an operator from the state it starts in (and its inputs:  *)
(* the argument, the script texts it reads, the external call that fails)  *)
(* to the state it leaves and its output.                                  *)
(*                                                                         *)
(* Text is modelled as text: a string is a sequence of one-character       *)
(* strings, the manifest is parsed with split('\n') and starts_with("//")  *)
(* and rewritten with format! and replace, as the code does.               *)
(*                                                                         *)
(* Four specifications share the state:                                    *)
(*   Spec      invocations of every subcommand, one after another, with    *)
(*             every external call that can fail failing in turn;          *)
(*   SpecNames init, new, delete and status with unusual names as well;    *)
(*   SpecConc  two apply invocations at the same time, one external call   *)
(*             per step;                                                   *)
(*   SpecRun   apply invoked until nothing is left, then rollback.         *)
(***************************************************************************)
EXTENDS Integers, Sequences, FiniteSets, TLC

VARIABLES
    migrationsDir,  \* BOOLEAN: ./migrations exists
    vagabond,       \* text of ./migrations/vagabond, or NoFile
    dirs,           \* names x such that the directory of migration x exists
    files,          \* <<x, "up.cql">>, <<x, "down.cql">>: script files that exist
    tableExists,    \* BOOLEAN: the tracking table has been created
    rows,           \* rows of the tracking table (migration names)
    db,             \* script statements executed against the database, in order
    procs,          \* the apply invocations in flight (SpecConc), else <<>>
    phase           \* what the operator invokes next (SpecRun), else "any"

vars == <<migrationsDir, vagabond, dirs, files, tableExists, rows, db,
          procs, phase>>

----------------------------------------------------------------------------
(* Bounds and input sets                                                   *)

NL == "\n"

\* The database log holds at most MaxLog statements: an invocation that would
\* execute more is not taken.
MaxLog == 3

NoFile == <<"<no file>">>

\* Migration names given to `new`.
PlainNames == {<<"a">>, <<"b">>, <<"c">>}

\* Names `new` accepts as well: "//a" begins with the manifest's comment
\* marker, "b\nc" holds a line break.
OddNames == {<<"/", "/", "a">>, <<"b", NL, "c">>}

Names == PlainNames \cup OddNames

\* Script texts a user may have put in up.cql / down.cql: "", "x;y", "x;;y".
ScriptTexts == {<<>>, <<"x", ";", "y">>, <<"x", ";", ";", "y">>}

----------------------------------------------------------------------------
(* Strings                                                                 *)

\* str::split(sep): the fragments between separators; "" gives one empty fragment.
RECURSIVE split(_, _)
split(s, sep) ==
    IF \A i \in 1..Len(s) : s[i] # sep
    THEN <<s>>
    ELSE LET i == CHOOSE i \in 1..Len(s) :
                      s[i] = sep /\ \A j \in 1..(i - 1) : s[j] # sep
         IN  <<SubSeq(s, 1, i - 1)>> \o split(SubSeq(s, i + 1, Len(s)), sep)

\* str::starts_with
starts_with(s, prefix) ==
    Len(s) >= Len(prefix) /\ SubSeq(s, 1, Len(prefix)) = prefix

\* Vec::contains
contains(v, x) == \E i \in 1..Len(v) : v[i] = x

\* str::replace(pat, to): every non-overlapping match of pat, left to right.
RECURSIVE replace(_, _, _)
replace(s, pat, to) ==
    IF Len(s) < Len(pat) THEN s
    ELSE IF SubSeq(s, 1, Len(pat)) = pat
         THEN to \o replace(SubSeq(s, Len(pat) + 1, Len(s)), pat, to)
         ELSE <<s[1]>> \o replace(Tail(s), pat, to)

\* format!("{}\n{}", a, b)
format_lines(a, b) == a \o <<NL>> \o b

\* format!("\n{}\n", a)
format_wrapped(a) == <<NL>> \o a \o <<NL>>

----------------------------------------------------------------------------
(* Messages: the last thing an invocation prints                           *)

Ok                  == "ok"
Panic               == "panic"
ErrReadVagabond     == "Error reading vagabond. Make sure the directory is intialized."
ErrSession          == "Error initializing session"
ErrKeyspace         == "Error setting keyspace. Does it exist?"
ErrCreateTable      == "Error creating vagabond table"
ErrQuery            == "Error applying migration query"
ErrSetMigration     == "Error setting migration in database"
\* The process is ended from outside: it prints nothing.
Killed              == "killed"
ErrCreateDir        == "Cannot create directory"
ErrWriteFile        == "Error writing file"
ErrCreateUp         == "Error creating up.cql"
ErrCreateDown       == "Error creating down.cql"
ErrWriteVagabond    == "Error writing to vagabond"
ErrReadUp           == "Error reading up.cql"
ErrReadDown         == "Error reading down.cql"
ErrDeleteDir        == "Error deleting directory"
ErrNoCurrent        == "No migration currently applied"
ErrNoMigration      == "No migration to apply!"
MsgInitialized      == "./migrations initialized"
MsgCreated          == "Migration created"
MsgRedone           == "Redone successfully"
MsgRolledBack       == "Rolled back"
MsgApplied          == "Applied"

\* The manifest's banner line (a comment).
Banner == <<"/", "/", "h">>

\* Option<String>: None is <<>>, Some(x) is <<x>>.
None == <<>>
Some(x) == <<x>>

----------------------------------------------------------------------------
(* Faults: the external call of an invocation that fails, if any           *)

NoFault == [at |-> "none", k |-> 1]

FaultsAt(kinds) == {[at |-> a, k |-> 1] : a \in kinds}

\* The k-th call of a repeated kind (a query, a remove_dir_all) fails, k in 1..n.
FaultsAtK(kind, n) == {[at |-> kind, k |-> i] : i \in 1..n}

----------------------------------------------------------------------------
(* The state one invocation starts from and ends in, as a record           *)

St ==
    [migrationsDir |-> migrationsDir, vagabond |-> vagabond, dirs |-> dirs,
     files |-> files, tableExists |-> tableExists, rows |-> rows, db |-> db]

\* What an invocation reports: its subcommand, the last message it prints,
\* the pointer it read, and the lines status prints.

Output(cmd, msg, cur, report) ==
    [cmd |-> cmd, msg |-> msg, cur |-> cur, report |-> report]

\* The process ends here, leaving state s: ioexpect's exit(-1), a panic, or the
\* end of main.
Exit(s, cmd, msg, cur) == [s |-> s, out |-> Output(cmd, msg, cur, <<>>)]

----------------------------------------------------------------------------
(* get_cfg: the Registry is the manifest's lines that are not comments     *)
(* (the environment variables it reads are taken as set)                   *)

CommentMarker == <<"/", "/">>

RECURSIVE load_lines(_, _)
load_lines(lines, migrations) ==
    IF lines = <<>>
    THEN [err |-> Ok, migrations |-> migrations]
    ELSE IF ~starts_with(Head(lines), CommentMarker)
         THEN IF contains(migrations, Head(lines))
              THEN [err |-> Panic, migrations |-> migrations]
              ELSE load_lines(Tail(lines), Append(migrations, Head(lines)))
         ELSE load_lines(Tail(lines), migrations)

get_cfg(file) ==
    IF file = NoFile
    THEN [err |-> ErrReadVagabond, vagabond |-> <<>>, migrations |-> <<>>]
    ELSE LET r == load_lines(split(file, NL), <<>>)
         IN  [err |-> r.err, vagabond |-> file, migrations |-> r.migrations]

----------------------------------------------------------------------------
(* The database session                                                    *)

\* init_single_connection that creates the table anew (no IF NOT EXISTS).
init_single_connection_fresh(s, f) ==
    IF f.at = "session" THEN [err |-> ErrSession, s |-> s]
    ELSE IF f.at = "keyspace" THEN [err |-> ErrKeyspace, s |-> s]
    ELSE IF f.at = "create" THEN [err |-> ErrCreateTable, s |-> s]
    ELSE [err |-> Ok, s |-> [s EXCEPT !.tableExists = TRUE, !.rows = {}]]

\* session::new, USE <keyspace> when one is configured, then
\* CREATE TABLE IF NOT EXISTS vagabond.
init_single_connection(s, f) ==
    IF f.at = "session" THEN [err |-> ErrSession, s |-> s]
    ELSE IF f.at = "keyspace" THEN [err |-> ErrKeyspace, s |-> s]
    ELSE IF f.at = "create" THEN [err |-> ErrCreateTable, s |-> s]
    ELSE [err |-> Ok, s |-> [s EXCEPT !.tableExists = TRUE]]

\* SELECT migration FROM vagabond, rows.first(): the results the read can give.
get_current_migration(table) ==
    IF table = {} THEN {None} ELSE {Some(r) : r \in table}

\* A loop that notes the failure of a query and goes on with the next one.
RECURSIVE run_queries_lenient(_, _, _)
run_queries_lenient(frags, calls, failK) ==
    IF frags = <<>> THEN [ran |-> <<>>, err |-> Ok]
    ELSE IF Len(Head(frags)) = 0 THEN [ran |-> <<>>, err |-> Ok]
    ELSE LET r == run_queries_lenient(Tail(frags), calls + 1, failK)
         IN  IF calls + 1 = failK THEN [ran |-> r.ran, err |-> ErrQuery]
             ELSE [ran |-> <<Head(frags)>> \o r.ran, err |-> r.err]

\* apply_migration's loop over migration.split(";"): stops at the first empty
\* fragment; the query numbered failK (counting from `calls`) fails.
RECURSIVE run_queries(_, _, _)
run_queries(frags, calls, failK) ==
    IF frags = <<>> THEN [ran |-> <<>>, err |-> Ok]
    ELSE IF Len(Head(frags)) = 0 THEN [ran |-> <<>>, err |-> Ok]
    ELSE IF calls + 1 = failK THEN [ran |-> <<>>, err |-> ErrQuery]
    ELSE LET r == run_queries(Tail(frags), calls + 1, failK)
         IN  [ran |-> <<Head(frags)>> \o r.ran, err |-> r.err]

apply_migration(s, migration, calls, f) ==
    LET r == run_queries(split(migration, ";"), calls,
                         IF f.at = "query" THEN f.k ELSE 0)
    IN  [err |-> r.err, ran |-> r.ran, s |-> [s EXCEPT !.db = @ \o r.ran]]

\* A clear that leaves the rows in the table.
del_current_migration_skip(s, f) ==
    IF f.at = "truncate" THEN [err |-> Panic, s |-> s]
    ELSE [err |-> Ok, s |-> s]

\* TRUNCATE vagabond (.unwrap()).
del_current_migration(s, f) ==
    IF f.at = "truncate" THEN [err |-> Panic, s |-> s]
    ELSE [err |-> Ok, s |-> [s EXCEPT !.rows = {}]]

\* An INSERT that is not preceded by the TRUNCATE.
set_current_migration_keep(s, name, f) ==
    IF f.at = "truncate" THEN [err |-> Panic, s |-> s]
    ELSE IF f.at = "insert" THEN [err |-> ErrSetMigration, s |-> s]
    ELSE [err |-> Ok, s |-> [s EXCEPT !.rows = @ \cup {name}]]

\* The new row is written first and the other rows are removed after it.
set_current_migration_insert_first(s, name, f) ==
    IF f.at = "insert" THEN [err |-> ErrSetMigration, s |-> s]
    ELSE IF f.at = "kill"
         THEN [err |-> Killed, s |-> [s EXCEPT !.rows = @ \cup {name}]]
    ELSE IF f.at = "truncate"
         THEN [err |-> Panic, s |-> [s EXCEPT !.rows = @ \cup {name}]]
    ELSE [err |-> Ok, s |-> [s EXCEPT !.rows = {name}]]

\* TRUNCATE, then INSERT INTO vagabond (migration) VALUES (name); the fault
\* "kill" ends the process between the two statements.
set_current_migration(s, name, f) ==
    LET d == del_current_migration(s, f)
    IN  IF d.err # Ok THEN d
        ELSE IF f.at = "kill" THEN [err |-> Killed, s |-> d.s]
        ELSE IF f.at = "insert" THEN [err |-> ErrSetMigration, s |-> d.s]
        ELSE [err |-> Ok, s |-> [d.s EXCEPT !.rows = @ \cup {name}]]

\* fs::read_to_string of a script succeeds when the file exists; its text is
\* the text the user has put there (an input of the invocation).
readable(s, name, file) == <<name, file>> \in s.files

----------------------------------------------------------------------------
(* init                                                                    *)

init(s, f) ==
    IF s.migrationsDir \/ f.at = "mkdir"
    THEN Exit(s, "init", ErrCreateDir, None)
    ELSE LET s1 == [s EXCEPT !.migrationsDir = TRUE]
         IN  IF f.at = "write_manifest"
             THEN Exit(s1, "init", ErrWriteFile, None)
             ELSE Exit([s1 EXCEPT !.vagabond = Banner], "init", MsgInitialized, None)

----------------------------------------------------------------------------
(* new NAME                                                                *)

new(s, f, name) ==
    LET cfg == get_cfg(s.vagabond)
    IN  IF cfg.err # Ok THEN Exit(s, "new", cfg.err, None)
        ELSE IF contains(cfg.migrations, name) THEN Exit(s, "new", Panic, None)
        ELSE IF name \in s.dirs \/ f.at = "mkdir"
             THEN Exit(s, "new", ErrCreateDir, None)
        ELSE LET s1 == [s EXCEPT !.dirs = @ \cup {name}]
             IN  IF f.at = "write_up" THEN Exit(s1, "new", ErrCreateUp, None)
        ELSE LET s2 == [s1 EXCEPT !.files = @ \cup {<<name, "up.cql">>}]
             IN  IF f.at = "write_down" THEN Exit(s2, "new", ErrCreateDown, None)
        ELSE LET s3 == [s2 EXCEPT !.files = @ \cup {<<name, "down.cql">>}]
             IN  IF f.at = "write_manifest"
                 THEN Exit(s3, "new", ErrWriteVagabond, None)
                 ELSE Exit([s3 EXCEPT !.vagabond = format_lines(cfg.vagabond, name)],
                           "new", MsgCreated, None)

----------------------------------------------------------------------------
(* redo                                                                    *)

\* redo that clears the pointer after the down-script, as rollback of the
\* first entry does.
redo_clearing(s, f, cur, down, up) ==
    LET cfg == get_cfg(s.vagabond)
    IN  IF cfg.err # Ok THEN Exit(s, "redo", cfg.err, None)
        ELSE LET c == init_single_connection(s, f)
             IN  IF c.err # Ok THEN Exit(c.s, "redo", c.err, None)
        ELSE IF f.at = "select" THEN Exit(c.s, "redo", Panic, None)
        ELSE IF cur = None THEN Exit(c.s, "redo", ErrNoCurrent, cur)
        ELSE IF ~readable(c.s, cur[1], "down.cql")
             THEN Exit(c.s, "redo", ErrReadDown, cur)
        ELSE LET d == apply_migration(c.s, down, 0, f)
             IN  IF d.err # Ok THEN Exit(d.s, "redo", d.err, cur)
        ELSE LET e == [d.s EXCEPT !.rows = {}]
             IN  IF ~readable(e, cur[1], "up.cql")
                 THEN Exit(e, "redo", ErrReadUp, cur)
        ELSE LET u == apply_migration(e, up, Len(d.ran), f)
             IN  IF u.err # Ok THEN Exit(u.s, "redo", u.err, cur)
                 ELSE Exit(u.s, "redo", MsgRedone, cur)

redo(s, f, cur, down, up) ==
    LET cfg == get_cfg(s.vagabond)
    IN  IF cfg.err # Ok THEN Exit(s, "redo", cfg.err, None)
        ELSE LET c == init_single_connection(s, f)
             IN  IF c.err # Ok THEN Exit(c.s, "redo", c.err, None)
        ELSE IF f.at = "select" THEN Exit(c.s, "redo", Panic, None)
        ELSE IF cur = None THEN Exit(c.s, "redo", ErrNoCurrent, cur)
        ELSE IF ~readable(c.s, cur[1], "down.cql")
             THEN Exit(c.s, "redo", ErrReadDown, cur)
        ELSE LET d == apply_migration(c.s, down, 0, f)
             IN  IF d.err # Ok THEN Exit(d.s, "redo", d.err, cur)
        ELSE IF ~readable(d.s, cur[1], "up.cql")
             THEN Exit(d.s, "redo", ErrReadUp, cur)
        ELSE LET u == apply_migration(d.s, up, Len(d.ran), f)
             IN  IF u.err # Ok THEN Exit(u.s, "redo", u.err, cur)
                 ELSE Exit(u.s, "redo", MsgRedone, cur)

----------------------------------------------------------------------------
(* rollback                                                                *)

\* reposition that steps back two entries instead of one.
reposition_far(s, migrations, i, cur, f) ==
    IF \E j \in 3..Len(migrations) : migrations[j] = cur
    THEN set_current_migration(
             s, migrations[(CHOOSE j \in 3..Len(migrations) : migrations[j] = cur) - 2], f)
    ELSE del_current_migration(s, f)

\* The loop over cfg.migrations.iter().enumerate(), from index i (1-based here).
RECURSIVE reposition(_, _, _, _, _)
reposition(s, migrations, i, cur, f) ==
    IF i > Len(migrations) THEN [err |-> Ok, s |-> s]
    ELSE IF migrations[i] = cur
         THEN LET r == IF i > 1
                       THEN set_current_migration(s, migrations[i - 1], f)
                       ELSE del_current_migration(s, f)
              IN  IF r.err # Ok THEN r
                  ELSE reposition(r.s, migrations, i + 1, cur, f)
         ELSE reposition(s, migrations, i + 1, cur, f)

\* rollback that runs the down-script before it looks at the pointer.
rollback_unchecked(s, f, cur, down) ==
    LET cfg == get_cfg(s.vagabond)
    IN  IF cfg.err # Ok THEN Exit(s, "rollback", cfg.err, None)
        ELSE LET c == init_single_connection(s, f)
             IN  IF c.err # Ok THEN Exit(c.s, "rollback", c.err, None)
        ELSE IF f.at = "select" THEN Exit(c.s, "rollback", Panic, None)
        ELSE LET d == apply_migration(c.s, down, 0, f)
             IN  IF d.err # Ok THEN Exit(d.s, "rollback", d.err, cur)
        ELSE IF cur = None THEN Exit(d.s, "rollback", ErrNoCurrent, cur)
        ELSE LET r == reposition(d.s, cfg.migrations, 1, cur[1], f)
             IN  IF r.err # Ok THEN Exit(r.s, "rollback", r.err, cur)
                 ELSE Exit(r.s, "rollback", MsgRolledBack, cur)

rollback(s, f, cur, down) ==
    LET cfg == get_cfg(s.vagabond)
    IN  IF cfg.err # Ok THEN Exit(s, "rollback", cfg.err, None)
        ELSE LET c == init_single_connection(s, f)
             IN  IF c.err # Ok THEN Exit(c.s, "rollback", c.err, None)
        ELSE IF f.at = "select" THEN Exit(c.s, "rollback", Panic, None)
        ELSE IF cur = None THEN Exit(c.s, "rollback", ErrNoCurrent, cur)
        ELSE IF ~readable(c.s, cur[1], "down.cql")
             THEN Exit(c.s, "rollback", ErrReadDown, cur)
        ELSE LET d == apply_migration(c.s, down, 0, f)
             IN  IF d.err # Ok THEN Exit(d.s, "rollback", d.err, cur)
        ELSE LET r == reposition(d.s, cfg.migrations, 1, cur[1], f)
             IN  IF r.err # Ok THEN Exit(r.s, "rollback", r.err, cur)
                 ELSE Exit(r.s, "rollback", MsgRolledBack, cur)

----------------------------------------------------------------------------
(* apply                                                                   *)

\* The scan `for x in &cfg.migrations` with the flag `applied`.
RECURSIVE scan_next(_, _, _)
scan_next(migrations, cur, applied) ==
    IF migrations = <<>> THEN None
    ELSE IF applied THEN Some(Head(migrations))
    ELSE scan_next(Tail(migrations), cur, Head(migrations) = cur)

\* next_migration that takes the first entry whatever the pointer.
next_migration_first(cur, migrations) ==
    IF migrations = <<>> THEN None ELSE Some(Head(migrations))

\* next_migration that starts over once the pointer is on the last entry.
next_migration_wrap(cur, migrations) ==
    IF migrations = <<>> THEN None
    ELSE IF cur = None \/ scan_next(migrations, cur[1], FALSE) = None
         THEN Some(Head(migrations))
         ELSE scan_next(migrations, cur[1], FALSE)

\* The migration apply targets: an Option.
next_migration(cur, migrations) ==
    IF cur = None
    THEN IF migrations = <<>> THEN None ELSE Some(Head(migrations))
    ELSE scan_next(migrations, cur[1], FALSE)

\* apply that moves the pointer before it runs the up-script.
apply_pointer_first(s, f, cur, up) ==
    LET cfg == get_cfg(s.vagabond)
    IN  IF cfg.err # Ok THEN Exit(s, "apply", cfg.err, None)
        ELSE LET c == init_single_connection(s, f)
             IN  IF c.err # Ok THEN Exit(c.s, "apply", c.err, None)
        ELSE IF f.at = "select" THEN Exit(c.s, "apply", Panic, None)
        ELSE LET name == next_migration(cur, cfg.migrations)
             IN  IF name = None THEN Exit(c.s, "apply", ErrNoMigration, cur)
        ELSE IF ~readable(c.s, name[1], "up.cql")
             THEN Exit(c.s, "apply", ErrReadUp, cur)
        ELSE LET p == set_current_migration(c.s, name[1], f)
             IN  IF p.err # Ok THEN Exit(p.s, "apply", p.err, cur)
        ELSE LET u == apply_migration(p.s, up, 0, f)
             IN  IF u.err # Ok THEN Exit(u.s, "apply", u.err, cur)
                 ELSE Exit(u.s, "apply", MsgApplied, cur)

apply(s, f, cur, up) ==
    LET cfg == get_cfg(s.vagabond)
    IN  IF cfg.err # Ok THEN Exit(s, "apply", cfg.err, None)
        ELSE LET c == init_single_connection(s, f)
             IN  IF c.err # Ok THEN Exit(c.s, "apply", c.err, None)
        ELSE IF f.at = "select" THEN Exit(c.s, "apply", Panic, None)
        ELSE LET name == next_migration(cur, cfg.migrations)
             IN  IF name = None THEN Exit(c.s, "apply", ErrNoMigration, cur)
        ELSE IF ~readable(c.s, name[1], "up.cql")
             THEN Exit(c.s, "apply", ErrReadUp, cur)
        ELSE LET u == apply_migration(c.s, up, 0, f)
             IN  IF u.err # Ok THEN Exit(u.s, "apply", u.err, cur)
        ELSE LET p == set_current_migration(u.s, name[1], f)
             IN  IF p.err # Ok THEN Exit(p.s, "apply", p.err, cur)
                 ELSE Exit(p.s, "apply", MsgApplied, cur)

----------------------------------------------------------------------------
(* delete                                                                  *)

\* The entries delete hands to `remove`: the loop with the flag `applied`.
\* A loop that also hands over the entry the pointer names.
RECURSIVE after_current_inclusive(_, _, _)
after_current_inclusive(migrations, cur, applied) ==
    IF migrations = <<>> THEN <<>>
    ELSE IF applied /\ Head(migrations) # cur
         THEN after_current_inclusive(Tail(migrations), cur, TRUE)
         ELSE <<Head(migrations)>>
                  \o after_current_inclusive(Tail(migrations), cur, FALSE)

RECURSIVE after_current(_, _, _)
after_current(migrations, cur, applied) ==
    IF migrations = <<>> THEN <<>>
    ELSE IF applied
         THEN after_current(Tail(migrations), cur, Head(migrations) # cur)
         ELSE <<Head(migrations)>> \o after_current(Tail(migrations), cur, FALSE)

\* unapplied that ignores the pointer.
unapplied_all(cur, migrations) == migrations

unapplied(cur, migrations) ==
    IF cur = None THEN migrations ELSE after_current(migrations, cur[1], TRUE)

\* The closure `remove`, called for each of xs in turn: remove_dir_all, then
\* the entry's line is cut out of the manifest text.
RECURSIVE remove_all(_, _, _, _, _)
remove_all(s, text, xs, calls, f) ==
    IF xs = <<>> THEN [err |-> Ok, s |-> s, text |-> text]
    ELSE LET x == Head(xs)
         IN  IF x \notin s.dirs \/ (f.at = "rmdir" /\ f.k = calls + 1)
             THEN [err |-> ErrDeleteDir, s |-> s, text |-> text]
             ELSE remove_all(
                    [s EXCEPT !.dirs = @ \ {x},
                              !.files = {p \in @ : p[1] # x}],
                    replace(text, format_wrapped(x), <<NL>>),
                    Tail(xs), calls + 1, f)

delete(s, f, cur) ==
    LET cfg == get_cfg(s.vagabond)
    IN  IF cfg.err # Ok THEN Exit(s, "delete", cfg.err, None)
        ELSE LET c == init_single_connection(s, f)
             IN  IF c.err # Ok THEN Exit(c.s, "delete", c.err, None)
        ELSE IF f.at = "select" THEN Exit(c.s, "delete", Panic, None)
        ELSE LET r == remove_all(c.s, format_wrapped(cfg.vagabond),
                                 unapplied(cur, cfg.migrations), 0, f)
             IN  IF r.err # Ok THEN Exit(r.s, "delete", r.err, cur)
        ELSE IF f.at = "write_manifest"
             THEN Exit(r.s, "delete", ErrWriteVagabond, cur)
             ELSE Exit([r.s EXCEPT !.vagabond = SubSeq(r.text, 2, Len(r.text) - 1)],
                       "delete", Ok, cur)

----------------------------------------------------------------------------
(* status (the default arm)                                                *)

Applied == "applied"
Pending == "pending"

\* The printing loop with the flag `applied`: one line per Registry entry.
RECURSIVE mark(_, _, _)
mark(migrations, cur, applied) ==
    IF migrations = <<>> THEN <<>>
    ELSE IF applied
         THEN <<<<Head(migrations), Applied>>>>
              \o mark(Tail(migrations), cur, Head(migrations) # cur)
         ELSE <<<<Head(migrations), Pending>>>> \o mark(Tail(migrations), cur, FALSE)

\* status_lines that leaves the pointer's own entry out of the applied ones.
status_lines_exclusive(cur, migrations) ==
    [i \in 1..Len(migrations) |->
        <<migrations[i],
          IF cur # None /\ \E k \in (i + 1)..Len(migrations) : migrations[k] = cur[1]
          THEN Applied ELSE Pending>>]

status_lines(cur, migrations) ==
    IF cur = None
    THEN [i \in 1..Len(migrations) |-> <<migrations[i], Pending>>]
    ELSE mark(migrations, cur[1], TRUE)

status(s, f, cur) ==
    LET cfg == get_cfg(s.vagabond)
    IN  IF cfg.err # Ok THEN Exit(s, "status", cfg.err, None)
        ELSE LET c == init_single_connection(s, f)
             IN  IF c.err # Ok THEN Exit(c.s, "status", c.err, None)
        ELSE IF f.at = "select" THEN Exit(c.s, "status", Panic, None)
        ELSE [s |-> c.s,
              out |-> Output("status", Ok, cur, status_lines(cur, cfg.migrations))]

----------------------------------------------------------------------------
(* The state machine: one action per subcommand                            *)

Init ==
    /\ migrationsDir = FALSE
    /\ vagabond = NoFile
    /\ dirs = {}
    /\ files = {}
    /\ tableExists = FALSE
    /\ rows = {}
    /\ db = <<>>
    /\ procs = <<>>
    /\ phase = "any"

\* The invocation with result r ends and leaves r.s.
Step(r) ==
    /\ Len(r.s.db) <= MaxLog
    /\ UNCHANGED <<procs, phase>>
    /\ migrationsDir' = r.s.migrationsDir
    /\ vagabond' = r.s.vagabond
    /\ dirs' = r.s.dirs
    /\ files' = r.s.files
    /\ tableExists' = r.s.tableExists
    /\ rows' = r.s.rows
    /\ db' = r.s.db

\* Opening the session or reading the pointer fails.
SessionFaults == FaultsAt({"session", "keyspace", "create", "select"})

\* The number of queries apply_migration sends for a script when none fails.
queries(script) == Len(run_queries(split(script, ";"), 0, 0).ran)

\* The external calls that may fail, per subcommand.
InitFaults == {NoFault} \cup FaultsAt({"mkdir", "write_manifest"})

NewFaults ==
    {NoFault} \cup FaultsAt({"mkdir", "write_up", "write_down", "write_manifest"})

RedoFaults(down, up) ==
    {NoFault} \cup SessionFaults \cup FaultsAtK("query", queries(down) + queries(up))

RollbackFaults(down) ==
    {NoFault} \cup SessionFaults
        \cup FaultsAt({"truncate", "insert", "kill"})
        \cup FaultsAtK("query", queries(down))

ApplyFaults(up) ==
    {NoFault} \cup SessionFaults
        \cup FaultsAt({"truncate", "insert", "kill"})
        \cup FaultsAtK("query", queries(up))

DeleteFaults(migrations) ==
    {NoFault} \cup SessionFaults \cup FaultsAt({"write_manifest"})
        \cup FaultsAtK("rmdir", Len(migrations))

StatusFaults == {NoFault} \cup SessionFaults

InitCmd == \E f \in InitFaults : Step(init(St, f))

New == \E name \in PlainNames, f \in NewFaults : Step(new(St, f, name))

NewOdd == \E name \in OddNames, f \in NewFaults : Step(new(St, f, name))

Redo ==
    \E cur \in get_current_migration(rows), down \in ScriptTexts, up \in ScriptTexts :
        \E f \in RedoFaults(down, up) : Step(redo(St, f, cur, down, up))

Rollback ==
    \E cur \in get_current_migration(rows), down \in ScriptTexts :
        \E f \in RollbackFaults(down) : Step(rollback(St, f, cur, down))

Apply ==
    \E cur \in get_current_migration(rows), up \in ScriptTexts :
        \E f \in ApplyFaults(up) : Step(apply(St, f, cur, up))

Delete ==
    \E cur \in get_current_migration(rows) :
        \E f \in DeleteFaults(get_cfg(vagabond).migrations) : Step(delete(St, f, cur))

Status ==
    \E cur \in get_current_migration(rows), f \in StatusFaults :
        Step(status(St, f, cur))

Next == InitCmd \/ New \/ Redo \/ Rollback \/ Apply \/ Delete \/ Status

Spec == Init /\ [][Next]_vars

\* The commands that work on the migrations directory alone, `new` taking any
\* name.
NextNames == InitCmd \/ New \/ NewOdd \/ Delete \/ Status

SpecNames == Init /\ [][NextNames]_vars

----------------------------------------------------------------------------
(* Two apply invocations at the same time, one external call per step      *)

\* The two processes; nothing in the program makes one wait for the other.
Procs == {"p", "q"}

\* A migrations directory after init and three new, scripts in place.
ThreeEntries == <<(<<"a">>), (<<"b">>), (<<"c">>)>>

\* The manifest init writes, with the line new adds for each of migs in turn.
RECURSIVE ManifestOf(_)
ManifestOf(migs) ==
    IF migs = <<>> THEN Banner
    ELSE format_lines(ManifestOf(SubSeq(migs, 1, Len(migs) - 1)),
                      migs[Len(migs)])

\* An invocation that has not made a call yet.
Started ==
    [pc |-> "start", migrations |-> <<>>, cur |-> None, name |-> None,
     up |-> <<>>, queue |-> <<>>, ran |-> <<>>]

\* Both invocations start from a state the serial runs reach: three entries,
\* the pointer absent or on any of them.
InitConc ==
    /\ migrationsDir = TRUE
    /\ vagabond = ManifestOf(ThreeEntries)
    /\ dirs = PlainNames
    /\ files = PlainNames \X {"up.cql", "down.cql"}
    /\ tableExists = TRUE
    /\ rows \in {{}} \cup {{x} : x \in PlainNames}
    /\ db = <<>>
    /\ procs = [p \in Procs |-> Started]
    /\ phase = "any"

\* get_cfg and init_single_connection.
ConcStart(p) ==
    /\ procs[p].pc = "start"
    /\ LET cfg == get_cfg(vagabond)
           c == init_single_connection(St, NoFault)
       IN  /\ cfg.err = Ok
           /\ tableExists' = c.s.tableExists
           /\ procs' = [procs EXCEPT ![p].pc = "select",
                                     ![p].migrations = cfg.migrations]
    /\ UNCHANGED <<migrationsDir, vagabond, dirs, files, rows, db, phase>>

\* A read of the pointer that waits while the other invocation is between its
\* own read and the end of its set, as under a lock.
ConcSelectExclusive(p) ==
    /\ procs[p].pc = "select"
    /\ \A q \in Procs \ {p} : procs[q].pc \notin {"query", "insert"}
    /\ \E cur \in get_current_migration(rows), up \in ScriptTexts :
          LET name == next_migration(cur, procs[p].migrations)
          IN  IF name = None \/ ~readable(St, name[1], "up.cql")
              THEN procs' = [procs EXCEPT ![p].pc = "failed", ![p].cur = cur]
              ELSE /\ \A q \in Procs :
                        procs[q].name = name => procs[q].up = up
                   /\ procs' = [procs EXCEPT
                          ![p].pc = "query", ![p].cur = cur, ![p].name = name,
                          ![p].up = up,
                          ![p].queue = run_queries(split(up, ";"), 0, 0).ran]
    /\ UNCHANGED <<migrationsDir, vagabond, dirs, files, tableExists, rows, db,
                   phase>>

\* get_current_migration (the SELECT), the scan for the next entry and the
\* read of its up.cql; the file has one text, whoever reads it.
ConcSelect(p) ==
    /\ procs[p].pc = "select"
    /\ \E cur \in get_current_migration(rows), up \in ScriptTexts :
          LET name == next_migration(cur, procs[p].migrations)
          IN  IF name = None \/ ~readable(St, name[1], "up.cql")
              THEN procs' = [procs EXCEPT ![p].pc = "failed", ![p].cur = cur]
              ELSE /\ \A q \in Procs :
                        procs[q].name = name => procs[q].up = up
                   /\ procs' = [procs EXCEPT
                          ![p].pc = "query", ![p].cur = cur, ![p].name = name,
                          ![p].up = up,
                          ![p].queue = run_queries(split(up, ";"), 0, 0).ran]
    /\ UNCHANGED <<migrationsDir, vagabond, dirs, files, tableExists, rows, db,
                   phase>>

\* apply_migration: one session.query of the loop.
ConcQuery(p) ==
    /\ procs[p].pc = "query"
    /\ procs[p].queue # <<>>
    /\ db' = Append(db, Head(procs[p].queue))
    /\ procs' = [procs EXCEPT ![p].queue = Tail(@),
                              ![p].ran = Append(@, Head(procs[p].queue))]
    /\ UNCHANGED <<migrationsDir, vagabond, dirs, files, tableExists, rows,
                   phase>>

\* set_current_migration, first statement: TRUNCATE.
ConcTruncate(p) ==
    /\ procs[p].pc = "query"
    /\ procs[p].queue = <<>>
    /\ rows' = del_current_migration(St, NoFault).s.rows
    /\ procs' = [procs EXCEPT ![p].pc = "insert"]
    /\ UNCHANGED <<migrationsDir, vagabond, dirs, files, tableExists, db, phase>>

\* set_current_migration, second statement: INSERT; "migration applied".
ConcInsert(p) ==
    /\ procs[p].pc = "insert"
    /\ rows' = rows \cup {procs[p].name[1]}
    /\ procs' = [procs EXCEPT ![p].pc = "done"]
    /\ UNCHANGED <<migrationsDir, vagabond, dirs, files, tableExists, db, phase>>

\* The call the invocation is about to make fails (ioexpect, unwrap), or the
\* process is ended: it makes no further call.
ConcFail(p) ==
    /\ procs[p].pc \in {"query", "insert"}
    /\ procs' = [procs EXCEPT ![p].pc = "failed"]
    /\ UNCHANGED <<migrationsDir, vagabond, dirs, files, tableExists, rows, db,
                   phase>>

\* The next call of invocation p, when it succeeds.
ConcCall(p) ==
    ConcStart(p) \/ ConcSelect(p) \/ ConcQuery(p) \/ ConcTruncate(p)
        \/ ConcInsert(p)

NextConc == \E p \in Procs : ConcCall(p) \/ ConcFail(p)

SpecConc == InitConc /\ [][NextConc]_vars

----------------------------------------------------------------------------
(* An operator who applies until nothing is left, then rolls back          *)

\* A Registry of one to three entries with their scripts, nothing applied;
\* it stays as it is: the operator runs neither new nor delete.  phase.made
\* counts the invocations of the subcommand phase.dir made so far.
InitRun ==
    \E n \in 1..Len(ThreeEntries) :
        LET migs == SubSeq(ThreeEntries, 1, n)
            names == {migs[i] : i \in 1..n}
        IN  /\ migrationsDir = TRUE
            /\ vagabond = ManifestOf(migs)
            /\ dirs = names
            /\ files = names \X {"up.cql", "down.cql"}
            /\ tableExists = FALSE
            /\ rows = {}
            /\ db = <<>>
            /\ procs = <<>>
            /\ phase = [dir |-> "apply", made |-> 0]

\* One more invocation, with result r, has ended; every call it made that
\* could succeed did.  The operator makes one invocation more than there are
\* entries.
RunStep(r) ==
    /\ phase.made <= Len(get_cfg(vagabond).migrations)
    /\ phase' = [phase EXCEPT !.made = @ + 1]
    /\ migrationsDir' = r.s.migrationsDir
    /\ vagabond' = r.s.vagabond
    /\ dirs' = r.s.dirs
    /\ files' = r.s.files
    /\ tableExists' = r.s.tableExists
    /\ rows' = r.s.rows
    /\ db' = r.s.db
    /\ UNCHANGED procs

ApplyRun ==
    /\ phase.dir = "apply"
    /\ \E cur \in get_current_migration(rows), up \in ScriptTexts :
          RunStep(apply(St, NoFault, cur, up))

\* Told "No migration to apply!", the operator turns to rollback.
TurnBack ==
    /\ phase.dir = "apply"
    /\ \E cur \in get_current_migration(rows) :
          apply(St, NoFault, cur, <<>>).out.msg = ErrNoMigration
    /\ phase' = [dir |-> "rollback", made |-> 0]
    /\ UNCHANGED <<migrationsDir, vagabond, dirs, files, tableExists, rows, db,
                   procs>>

RollbackRun ==
    /\ phase.dir = "rollback"
    /\ \E cur \in get_current_migration(rows), down \in ScriptTexts :
          RunStep(rollback(St, NoFault, cur, down))

NextRun == ApplyRun \/ TurnBack \/ RollbackRun

SpecRun == InitRun /\ [][NextRun]_vars

----------------------------------------------------------------------------
(* Vocabulary of the properties                                            *)

\* The Registry a reload of the manifest gives, and whether the reload succeeds.
Registry(s) == get_cfg(s.vagabond).migrations
Loads(s) == get_cfg(s.vagabond).err = Ok

\* The values a read of the pointer can give in the current state.
Pointer == get_current_migration(rows)

\* The position of name x in the Registry migs, 0 when it is not there.
IndexOf(migs, x) ==
    IF \E i \in 1..Len(migs) : migs[i] = x
    THEN CHOOSE i \in 1..Len(migs) : migs[i] = x
    ELSE 0

\* The position of the pointer cur (an Option) in migs, 0 when it is absent.
PointerIndex(cur, migs) == IF cur = None THEN 0 ELSE IndexOf(migs, cur[1])

\* There is no entry after the pointer: the Registry is empty, or the pointer
\* is its last entry.
NoNextEntry(cur, migs) ==
    migs = <<>> \/ (cur # None /\ migs[Len(migs)] = cur[1])

\* The messages of an invocation that could not open its session or read the
\* pointer.
SessionErrors == {ErrSession, ErrKeyspace, ErrCreateTable, Panic}

\* Pointer, Registry, directories, script files and database effects agree.
SameData(s1, s2) ==
    /\ s1.rows = s2.rows
    /\ s1.vagabond = s2.vagabond
    /\ s1.migrationsDir = s2.migrationsDir
    /\ s1.dirs = s2.dirs
    /\ s1.files = s2.files
    /\ s1.db = s2.db

----------------------------------------------------------------------------
(* Properties                                                              *)

\* C1: a successful apply targets the first Registry entry when no pointer is
\* set and otherwise the entry right after the pointer's; afterwards the
\* pointer names exactly that entry (its index has grown by one).
ApplyTargetsNext ==
    \A cur \in Pointer, up \in ScriptTexts : \A f \in ApplyFaults(up) :
        LET r == apply(St, f, cur, up)
            migs == Registry(St)
        IN  r.out.msg = MsgApplied =>
              /\ Registry(r.s) = migs
              /\ IF cur = None
                 THEN migs # <<>> /\ r.s.rows = {migs[1]}
                 ELSE \E i \in 1..(Len(migs) - 1) :
                         migs[i] = cur[1] /\ r.s.rows = {migs[i + 1]}

\* A pointer is set, entries follow it, and apply of the next one succeeds
\* after running statements.
ApplyAdvancesWitness ==
    /\ rows # {}
    /\ Len(Registry(St)) >= 3
    /\ \E cur \in Pointer, up \in ScriptTexts :
          LET r == apply(St, NoFault, cur, up)
          IN  /\ r.out.msg = MsgApplied
              /\ r.s.db # db
              /\ r.s.rows # rows

\* C2: an apply whose up-script fails leaves the pointer as it was; a
\* following status reports the targeted migration Pending and a following
\* apply targets the same migration again.
FailedApplyKeepsPointer ==
    \A cur \in Pointer, up \in ScriptTexts : \A f \in ApplyFaults(up) :
        LET r == apply(St, f, cur, up)
            migs == Registry(St)
            target == migs[PointerIndex(cur, migs) + 1]
        IN  r.out.msg = ErrQuery =>
              /\ r.s.rows = rows
              /\ \A cur2 \in get_current_migration(r.s.rows) :
                    /\ \E i \in 1..Len(migs) :
                          status(r.s, NoFault, cur2).out.report[i] = <<target, Pending>>
                    /\ \A up2 \in ScriptTexts : \A f2 \in ApplyFaults(up2) :
                          LET r2 == apply(r.s, f2, cur2, up2)
                          IN  r2.out.msg = MsgApplied => r2.s.rows = {target}

\* An apply fails on the second statement of its up-script, the first one
\* having taken effect, with a pointer set.
FailedApplyWitness ==
    /\ rows # {}
    /\ \E cur \in Pointer, up \in ScriptTexts :
          LET r == apply(St, [at |-> "query", k |-> 2], cur, up)
          IN  r.out.msg = ErrQuery /\ Len(r.s.db) = Len(db) + 1

\* C3: a successful apply followed by a successful rollback restores the
\* pointer to its value before the apply (the previous entry, or absent).
ApplyRollbackRestores ==
    \A cur \in Pointer, up \in ScriptTexts : \A f \in ApplyFaults(up) :
        LET r == apply(St, f, cur, up)
        IN  r.out.msg = MsgApplied =>
              \A cur2 \in get_current_migration(r.s.rows), down \in ScriptTexts :
                  \A f2 \in RollbackFaults(down) :
                      LET r2 == rollback(r.s, f2, cur2, down)
                      IN  r2.out.msg = MsgRolledBack => r2.s.rows = rows

\* From a pointer on an entry that is not the first, an apply and then a
\* rollback both succeed.
ApplyRollbackWitness ==
    /\ rows # {}
    /\ \E cur \in Pointer :
          /\ PointerIndex(cur, Registry(St)) >= 2
          /\ LET r == apply(St, NoFault, cur, <<"x", ";", "y">>)
             IN  /\ r.out.msg = MsgApplied
                 /\ \E cur2 \in get_current_migration(r.s.rows) :
                       rollback(r.s, NoFault, cur2, <<>>).out.msg = MsgRolledBack

\* C4: redo never changes the pointer, whatever it executes and however it
\* ends.
RedoKeepsPointer ==
    \A cur \in Pointer, down \in ScriptTexts, up \in ScriptTexts :
        \A f \in RedoFaults(down, up) :
            redo(St, f, cur, down, up).s.rows = rows

\* A redo with a pointer set succeeds after executing statements of the
\* down-script and of the up-script.
RedoWitness ==
    /\ rows # {}
    /\ \E cur \in Pointer :
          LET r == redo(St, NoFault, cur, <<"x", ";", ";", "y">>, <<"x", ";", "y">>)
          IN  r.out.msg = MsgRedone /\ Len(r.s.db) = Len(db) + 3

\* C5: a delete that succeeds removes exactly the entries after the pointer
\* (all of them when no pointer is set), their directories and their manifest
\* lines; the entries up to the pointer keep their order, their directories
\* and files, and the pointer is untouched.
DeleteRemovesPending ==
    \A cur \in Pointer : \A f \in DeleteFaults(Registry(St)) :
        LET r == delete(St, f, cur)
            migs == Registry(St)
            k == PointerIndex(cur, migs)
            gone == {migs[i] : i \in (k + 1)..Len(migs)}
        IN  (r.out.msg = Ok /\ (cur = None \/ k > 0)) =>
              /\ Loads(r.s)
              /\ Registry(r.s) = SubSeq(migs, 1, k)
              /\ r.s.dirs = dirs \ gone
              /\ r.s.files = {p \in files : p[1] \notin gone}
              /\ r.s.rows = rows
              /\ r.s.db = db

\* The pointer is on the first of three entries and delete succeeds.
DeleteWitness ==
    /\ Len(Registry(St)) = 3
    /\ rows = {Registry(St)[1]}
    /\ \E cur \in Pointer :
          LET r == delete(St, NoFault, cur)
          IN  r.out.msg = Ok /\ Len(Registry(r.s)) = 1 /\ r.s.dirs # dirs

\* C6: when there is no next entry, apply never succeeds, executes nothing
\* and leaves the pointer alone; unless the session or the pointer read fails
\* first, it ends with "No migration to apply!".
NothingToApply ==
    \A cur \in Pointer, up \in ScriptTexts : \A f \in ApplyFaults(up) :
        LET r == apply(St, f, cur, up)
        IN  (Loads(St) /\ NoNextEntry(cur, Registry(St))) =>
              /\ SameData(r.s, St)
              /\ r.out.msg \in {ErrNoMigration} \cup SessionErrors
              /\ f \notin SessionFaults => r.out.msg = ErrNoMigration

\* The pointer is on the last of at least two entries, whose scripts exist.
NothingToApplyWitness ==
    /\ Len(Registry(St)) >= 2
    /\ rows = {Registry(St)[Len(Registry(St))]}
    /\ <<Registry(St)[1], "up.cql">> \in files
    /\ \E cur \in Pointer : apply(St, NoFault, cur, <<>>).out.msg = ErrNoMigration

\* C7: with an empty tracking table, rollback and redo never succeed, execute
\* nothing and change neither pointer, Registry nor files; unless loading or
\* the session fails first, each ends with "No migration currently applied".
RollbackRedoNeedPointer ==
    rows = {} =>
        \A cur \in Pointer, down \in ScriptTexts, up \in ScriptTexts :
            /\ \A f \in RollbackFaults(down) :
                  LET r == rollback(St, f, cur, down)
                  IN  /\ SameData(r.s, St)
                      /\ r.out.msg # MsgRolledBack
                      /\ (Loads(St) /\ f \notin SessionFaults)
                            => r.out.msg = ErrNoCurrent
            /\ \A f \in RedoFaults(down, up) :
                  LET r == redo(St, f, cur, down, up)
                  IN  /\ SameData(r.s, St)
                      /\ r.out.msg # MsgRedone
                      /\ (Loads(St) /\ f \notin SessionFaults)
                            => r.out.msg = ErrNoCurrent

\* The table is empty again after scripts have run, the first entry's scripts
\* exist, and rollback and redo are refused.
NeedPointerWitness ==
    /\ rows = {}
    /\ db # <<>>
    /\ Registry(St) # <<>>
    /\ <<Registry(St)[1], "down.cql">> \in files
    /\ rollback(St, NoFault, None, <<"x", ";", "y">>).out.msg = ErrNoCurrent
    /\ redo(St, NoFault, None, <<"x", ";", "y">>, <<>>).out.msg = ErrNoCurrent

\* C8: every new that succeeds makes the reloaded Registry the old one with
\* the name appended, and a new with a name already in the Registry is
\* rejected and changes nothing.
NewAppendsInOrder ==
    [][\A name \in Names, f \in NewFaults :
          LET r == new(St, f, name)
          IN  /\ (Step(r) /\ r.out.msg = MsgCreated) =>
                    Loads(r.s) /\ Registry(r.s) = Append(Registry(St), name)
              /\ (Loads(St) /\ contains(Registry(St), name)) =>
                    r.out.msg # MsgCreated /\ r.s = St]_vars

\* C9: status reports one line per Registry entry, in order, and entry i is
\* Applied iff a pointer is set and i is at most the pointer's index; right
\* after a successful apply these are the applied entry and its predecessors.
StatusMarksUpToPointer ==
    /\ \A cur \in Pointer, f \in StatusFaults :
          LET r == status(St, f, cur)
              migs == Registry(St)
          IN  r.out.msg = Ok =>
                /\ Len(r.out.report) = Len(migs)
                /\ \A i \in 1..Len(migs) :
                      r.out.report[i] =
                          <<migs[i],
                            IF cur # None /\ i <= PointerIndex(cur, migs)
                            THEN Applied ELSE Pending>>
    /\ \A cur \in Pointer, up \in ScriptTexts : \A f \in ApplyFaults(up) :
          LET r == apply(St, f, cur, up)
              migs == Registry(St)
              k == PointerIndex(cur, migs) + 1
          IN  r.out.msg = MsgApplied =>
                \A cur2 \in get_current_migration(r.s.rows) :
                    status(r.s, NoFault, cur2).out.report =
                        [i \in 1..Len(migs) |->
                            <<migs[i], IF i <= k THEN Applied ELSE Pending>>]

\* The pointer is on the second of three entries and status reports.
StatusWitness ==
    /\ Len(Registry(St)) = 3
    /\ rows = {Registry(St)[2]}
    /\ \E cur \in Pointer :
          LET rep == status(St, NoFault, cur).out.report
          IN  rep[1][2] = Applied /\ rep[2][2] = Applied /\ rep[3][2] = Pending

\* C10: status changes neither the tracking table's rows, the manifest, the
\* migration directories and files, nor the database effects of scripts.
StatusPureRead ==
    \A cur \in Pointer, f \in StatusFaults : SameData(status(St, f, cur).s, St)

\* status reports in a state with a pointer set and statements executed.
StatusPureReadWitness ==
    /\ rows # {}
    /\ db # <<>>
    /\ \E cur \in Pointer :
          LET r == status(St, NoFault, cur)
          IN  r.out.msg = Ok /\ r.out.report # <<>>

\* C11: with invocations run one after another, the tracking table holds no
\* row or exactly one row in every reachable state.
AtMostOneRow == Cardinality(rows) <= 1

\* The table holds one row that replaced an earlier one: the pointer is on an
\* entry after the first.
AtMostOneRowWitness ==
    /\ Cardinality(rows) = 1
    /\ \E x \in rows : IndexOf(Registry(St), x) >= 2

\* The non-empty fragments of a script, in order.
NonEmptyFragments(script) == SelectSeq(split(script, ";"), LAMBDA x : x # <<>>)

\* C13: the Executor splits the script text on ';' and executes every
\* non-empty statement in order, ignoring only empty fragments: a successful
\* apply adds to the database every non-empty fragment of its up-script (for
\* the fragments s1, empty, s2 both s1 and s2).
ExecutorRunsEveryStatement ==
    [][\A cur \in Pointer, up \in ScriptTexts :
          LET r == apply(St, NoFault, cur, up)
          IN  (r.out.msg = MsgApplied /\ Step(r))
                  => db' = db \o NonEmptyFragments(up)]_vars

\* The statements of a script that the Executor sends when none fails: the
\* fragments before the first empty one.
Sent(script) ==
    LET fr == split(script, ";")
        stops == {i \in 1..Len(fr) : fr[i] = <<>>}
        n == IF stops = {} THEN Len(fr)
             ELSE (CHOOSE i \in stops : \A j \in stops : i <= j) - 1
    IN  SubSeq(fr, 1, n)

\* C14: when statement number k of an apply, a rollback or a redo fails, the
\* invocation halts: the database holds the effects of the k-1 statements
\* before it and of no later one (for redo, no up-script statement after a
\* failing down-script statement), and the pointer is not written.
FailedStatementHalts ==
    \A cur \in Pointer, t1 \in ScriptTexts, t2 \in ScriptTexts :
      \A k \in 1..(Len(split(t1, ";")) + Len(split(t2, ";"))) :
        LET f == [at |-> "query", k |-> k]
            a == apply(St, f, cur, t1)
            b == rollback(St, f, cur, t1)
            r == redo(St, f, cur, t1, t2)
        IN  /\ a.out.msg = ErrQuery
                => /\ a.s.rows = rows
                   /\ a.s.db = db \o SubSeq(Sent(t1), 1, k - 1)
            /\ b.out.msg = ErrQuery
                => /\ b.s.rows = rows
                   /\ b.s.db = db \o SubSeq(Sent(t1), 1, k - 1)
            /\ r.out.msg = ErrQuery
                => /\ r.s.rows = rows
                   /\ r.s.db = db \o SubSeq(Sent(t1) \o Sent(t2), 1, k - 1)

\* A redo and a rollback of an applied entry fail on the second statement of
\* the down-script after the first has taken effect.
FailedStatementWitness ==
    /\ rows # {}
    /\ \E cur \in Pointer :
          LET f == [at |-> "query", k |-> 2]
              r == redo(St, f, cur, <<"x", ";", "y">>, <<"x", ";", "y">>)
              b == rollback(St, f, cur, <<"x", ";", "y">>)
          IN  /\ r.out.msg = ErrQuery /\ r.s.db = db \o <<(<<"x">>)>>
              /\ b.out.msg = ErrQuery /\ b.s.db = db \o <<(<<"x">>)>>

\* C15: set is TRUNCATE followed by INSERT and is not atomic: when the INSERT
\* fails, or the process is ended between the two statements, the table is
\* left empty (the pointer reads as absent), never with the old name or with
\* another one; so for the set of apply and for the set of a rollback to a
\* previous entry.
InterruptedSetLeavesEmpty ==
    \A cur \in Pointer, t \in ScriptTexts, at \in {"insert", "kill"} :
        LET f == [at |-> at, k |-> 1]
            a == apply(St, f, cur, t)
            b == rollback(St, f, cur, t)
        IN  /\ a.out.msg \in {ErrSetMigration, Killed} => a.s.rows = {}
            /\ b.out.msg \in {ErrSetMigration, Killed} => b.s.rows = {}

\* With the pointer on the second of three entries, the set of an apply and
\* the set of a rollback are both interrupted after the TRUNCATE.
InterruptedSetWitness ==
    /\ Len(Registry(St)) = 3
    /\ rows = {Registry(St)[2]}
    /\ \E t \in ScriptTexts :
          LET f == [at |-> "kill", k |-> 1]
              cur == Some(Registry(St)[2])
          IN  /\ apply(St, f, cur, t).out.msg = Killed
              /\ rollback(St, f, cur, t).out.msg = Killed
              /\ apply(St, [f EXCEPT !.at = "insert"], cur, t).out.msg
                     = ErrSetMigration

\* C16: with invocations run one after another, the pointer is absent or names
\* an entry of the Registry in every reachable state, and no invocation, a
\* failing one included, removes the entry the pointer names or an entry
\* before it (nor its directory).
PointerStaysInRegistry ==
    [][/\ \A x \in rows' : contains(get_cfg(vagabond').migrations, x)
       /\ \A x \in rows :
             LET migs == Registry(St)
                 k == IndexOf(migs, x)
                 migs2 == get_cfg(vagabond').migrations
             IN  /\ Len(migs2) >= k
                 /\ SubSeq(migs2, 1, k) = SubSeq(migs, 1, k)
                 /\ \A i \in 1..k : migs[i] \in dirs => migs[i] \in dirs'
      ]_vars

\* The pointer is on the second of two entries whose directories exist,
\* statements have been executed, and a delete succeeds.
PointerStaysWitness ==
    /\ Len(Registry(St)) = 2
    /\ rows = {Registry(St)[2]}
    /\ \A i \in 1..2 : Registry(St)[i] \in dirs
    /\ db # <<>>
    /\ delete(St, NoFault, Some(Registry(St)[2])).out.msg = Ok

\* C17: every name in the manifest has its directory in every reachable
\* state, also after a delete that fails part-way.
ManifestNamesHaveDirs == \A i \in 1..Len(Registry(St)) : Registry(St)[i] \in dirs

\* C18: a redo whose down-script completes and whose up-script then fails (or
\* cannot be read) leaves the pointer on the same entry: a following status
\* reports that entry Applied, a following apply targets the entry after it,
\* and a following rollback runs the entry's down-script again.
HalfRedoKeepsPointer ==
    \A cur \in Pointer, down \in ScriptTexts, up \in ScriptTexts :
      \A k \in 0..(Len(Sent(down)) + Len(Sent(up))) :
        LET f == IF k = 0 THEN NoFault ELSE [at |-> "query", k |-> k]
            r == redo(St, f, cur, down, up)
            migs == Registry(St)
            i == PointerIndex(cur, migs)
            upFailed == \/ r.out.msg = ErrReadUp
                        \/ r.out.msg = ErrQuery /\ k > Len(Sent(down))
        IN  upFailed =>
              /\ r.s.rows = rows
              /\ r.s.db = db \o Sent(down) \o SubSeq(Sent(up), 1, k - Len(Sent(down)) - 1)
              /\ i >= 1
              /\ \A cur2 \in get_current_migration(r.s.rows) :
                    /\ status(r.s, NoFault, cur2).out.report[i] = <<migs[i], Applied>>
                    /\ \A t \in ScriptTexts :
                          LET a == apply(r.s, NoFault, cur2, t)
                              b == rollback(r.s, NoFault, cur2, t)
                          IN  /\ a.out.msg \in {MsgApplied, ErrNoMigration, ErrReadUp}
                              /\ a.out.msg = ErrNoMigration <=> i = Len(migs)
                              /\ a.out.msg = MsgApplied => a.s.rows = {migs[i + 1]}
                              /\ b.out.msg = MsgRolledBack
                              /\ b.s.db = r.s.db \o Sent(t)

\* With the pointer on the first of two entries, a redo executes its
\* down-script and fails on the second statement of its up-script; the apply
\* that follows moves the pointer to the second entry.
HalfRedoWitness ==
    /\ Len(Registry(St)) = 2
    /\ rows = {Registry(St)[1]}
    /\ LET cur == Some(Registry(St)[1])
           r == redo(St, [at |-> "query", k |-> 3], cur,
                     <<"x", ";", ";", "y">>, <<"x", ";", "y">>)
       IN  /\ r.out.msg = ErrQuery
           /\ Len(r.s.db) = Len(db) + 2
           /\ apply(r.s, NoFault, cur, <<>>).out.msg = MsgApplied

\* C12: nothing excludes one apply while another is running.  An invocation
\* that has not ended can always make its next call, wherever the other one
\* is; so both can read the same pointer, and each one that reaches its set
\* has itself executed every statement of the up-script of the entry after the
\* pointer it read.
NoMutualExclusion ==
    \A p \in Procs :
        /\ procs[p].pc \notin {"done", "failed"} => ENABLED ConcCall(p)
        /\ procs[p].pc \in {"insert", "done"} =>
              /\ procs[p].ran = Sent(procs[p].up)
              /\ procs[p].name
                    = Some(procs[p].migrations[
                               PointerIndex(procs[p].cur, procs[p].migrations) + 1])

\* Both invocations read the same pointer, both executed the two statements
\* of the same up-script (it ran twice) and both completed their set.
DoubleApplication ==
    /\ \A p \in Procs : procs[p].pc = "done" /\ Len(procs[p].ran) = 2
    /\ procs["p"].cur = procs["q"].cur
    /\ procs["p"].name = procs["q"].name
    /\ Len(db) = 4

\* C19: two concurrent applies that loaded the same Registry, read the same
\* pointer and both ran to completion leave exactly one row in the table, and
\* it names the entry after the pointer they read, however their TRUNCATE and
\* INSERT statements interleave.
ConcurrentSetsAgree ==
    \A p \in Procs : \A q \in Procs \ {p} :
        (/\ procs[p].pc = "done" /\ procs[q].pc = "done"
         /\ procs[p].migrations = procs[q].migrations
         /\ procs[p].cur = procs[q].cur)
            => /\ Cardinality(rows) = 1
               /\ rows = {procs[p].migrations[
                              PointerIndex(procs[p].cur, procs[p].migrations) + 1]}

\* Both invocations read the same pointer, one that was set, and both have
\* completed their TRUNCATE and their INSERT.
BothSetsDone ==
    /\ \A p \in Procs : procs[p].pc = "done"
    /\ procs["p"].cur = procs["q"].cur
    /\ procs["p"].cur # None
    /\ rows # {}

\* C20: starting with no pointer and a Registry of n entries that does not
\* change, every statement succeeding, the k-th apply in a row leaves the
\* pointer on entry k: the applies visit the entries in Registry order, one
\* per invocation, n of them leave the pointer on the last entry, and there
\* every further apply fails with "No migration to apply!" and changes
\* nothing.  From there the k-th rollback in a row leaves the pointer on
\* entry n-k, n of them leave it absent, and there every further rollback
\* fails.
RunsReachTheEnds ==
    LET migs == Registry(St)
        n == Len(migs)
        k == phase.made
    IN  /\ phase.dir = "apply" =>
              rows = IF k = 0 THEN {} ELSE {migs[IF k <= n THEN k ELSE n]}
        /\ phase.dir = "rollback" =>
              rows = IF k >= n THEN {} ELSE {migs[n - k]}
        /\ rows = {migs[n]} =>
              \A cur \in Pointer, t \in ScriptTexts :
                  LET a == apply(St, NoFault, cur, t)
                  IN  a.out.msg = ErrNoMigration /\ SameData(a.s, St)
        /\ rows = {} =>
              \A cur \in Pointer, t \in ScriptTexts :
                  LET b == rollback(St, NoFault, cur, t)
                  IN  b.out.msg = ErrNoCurrent /\ SameData(b.s, St)

\* Three applies and three rollbacks, each executing two statements, have
\* brought the pointer to the third entry and back to absent, and one more
\* rollback has been tried.
RunsWitness ==
    /\ phase = [dir |-> "rollback", made |-> 4]
    /\ rows = {}
    /\ Len(Registry(St)) = 3
    /\ Len(db) = 12

====
